---------------------------- MODULE Spec2Model ----------------------------
(***************************************************************************)
(* PPT2Manual: the conversion worker (PPTConverterThread.run) and the      *)
(* merge engine (PDFMerger.merge_pdfs_with_bookmarks) as a state machine,  *)
(* with the layout generators and the TOC title column as functions of     *)
(* their inputs.                                                           *)
(*                                                                         *)
(* A document is a sequence of pages; a page records the document it came  *)
(* from (0 for the table of contents), its index in that document and the  *)
(* footers drawn on it.  Files are named by small integers; the title of   *)
(* a document is the name of its file.                                     *)
(***************************************************************************)
EXTENDS Integers, Sequences, FiniteSets, TLC

(***************************************************************************)
(* Bounds of the model.                                                    *)
(***************************************************************************)
MaxFiles == 3        \* input files of one worker run or one direct merge call
MaxSlides == 9       \* slide images one presentation yields
MaxTocEntries == 26  \* documents of a merge in a fault-free environment

(***************************************************************************)
(* Program constants.                                                      *)
(***************************************************************************)
slides_per_page == 8   \* ChineseSlideLayoutGenerator.slides_per_page
toc_margin == 50       \* margin of the TOC page
line_height == 25      \* height of one TOC line
\* Height of an A4 page in points (841.88...), rounded down.  Every quantity
\* it is compared with is an integer, so the comparisons are unchanged.
page_height == 841
TocOffset == 1         \* the "+1" for the TOC page in start_page_in_final

OrderKeys == {0, 1}    \* the 'order' values a caller of the merge passes

VARIABLES
    \* ---- PPTConverterThread
    ppt_files,            \* the input presentations, a sequence of file names
    is_cancelled,         \* the cancellation flag, set by cancel()
    pc,                   \* position of the run (or of the merge call)
    i,                    \* presentations converted so far
    temp_pdfs,            \* names of the per-input layout PDFs
    signals,              \* conversion_finished / error_occurred emitted so far
    temp_files,           \* PPTConverter.temp_files: the image directories it made
    optimize_result,      \* what optimize_pdf returned: "none" yet, "True" or "False"
    \* ---- environment
    caller,               \* "run": merge called by the worker; "direct": by a caller
    env_faults,           \* whether files and libraries may fail in this run
    files,                \* file name -> page count of the PDF there (0: no file)
    target,               \* the file at output_path: "absent", "partial", "merged", "optimized"
    toc_file,             \* page count of the temporary TOC PDF (0: no file)
    temp_dirs,            \* the temporary image directories that exist
    \* ---- PDFMerger.merge_pdfs_with_bookmarks
    pdf_info_list,        \* the argument: records file, title, order, has_order
    pdf_page_info,        \* result of the page-count pass
    total_content_pages,
    k,                    \* loop index of the pass in progress
    toc_pdf_path,         \* TRUE when the TOC renderer returned a path
    toc_entries,          \* the lines printed in the TOC
    output_doc,           \* the document being assembled
    bookmarks,
    current_page,
    outline,              \* the list handed to set_toc
    metadata,             \* pdf_count written into the metadata, -1 before
    merge_result,         \* what the merge returned: "none" yet, "True" or "False"
    first_run,            \* a caller that merges twice: the first call's argument and results
    \* ---- the layout generators
    generator,            \* "slides": ChineseSlideLayoutGenerator, "pdf": PDFLayoutGenerator,
                          \* "ppt": SlideLayoutGenerator of ppt_converter.py
    image_list,           \* the page images handed to the generator
    layout_doc,           \* the grid pages of the layout PDF it wrote
    \* ---- the TOC renderer's title column
    title,                \* a document title, a sequence of characters
    toc_title,            \* the title as the TOC line shows it
    \* ---- ChineseFontManager
    font_manager,         \* the object: font_registered, font_name
    font_files,           \* per candidate path: "absent", "bad" (registerFont raises) or "good"
    font_calls,           \* per call of register_chinese_font: the name returned, the paths probed
    \* ---- ProgressTracker
    tracker,              \* the object: total_steps, current_step, step_weights
    progress,             \* what get_progress_percentage did last: raises, value (-1: not called)
    progress_updated      \* the values the worker emitted with progress_updated

runVars == <<ppt_files, is_cancelled, i, temp_pdfs, signals, temp_files, optimize_result>>
envVars == <<caller, env_faults, files, target, toc_file, temp_dirs>>
layoutVars == <<generator, image_list, layout_doc>>
titleVars == <<title, toc_title>>
\* What the worker and a single merge call never touch.
fontVars == <<font_manager, font_files, font_calls>>
trackVars == <<tracker, progress, progress_updated>>
idleVars == <<first_run, layoutVars, titleVars, fontVars>>
sideVars == <<idleVars, trackVars>>
mergeVars == <<pdf_info_list, pdf_page_info, total_content_pages, k, toc_pdf_path,
               toc_entries, output_doc, bookmarks, current_page, outline, metadata,
               merge_result>>
vars == <<runVars, envVars, mergeVars, sideVars, pc>>

(***************************************************************************)
(* Helpers over sequences.                                                 *)
(***************************************************************************)
Range(s) == {s[j] : j \in 1..Len(s)}

\* Sum of the page counts of the first n entries of a page-info list.
RECURSIVE SumPageCounts(_, _)
SumPageCounts(info, n) ==
    IF n = 0 THEN 0 ELSE SumPageCounts(info, n - 1) + info[n].page_count

\* The pages of document doc, which has n pages, with no footer on them.
DocPages(doc, n) == [p \in 1..n |-> [doc |-> doc, idx |-> p, footers |-> <<>>]]

(***************************************************************************)
(* ProgressTracker.                                                        *)
(***************************************************************************)
\* __init__
ProgressTracker(total_steps) ==
    [total_steps |-> total_steps, current_step |-> 0,
     step_weights |-> [j \in 1..total_steps |-> 1]]

\* set_step_weights: taken only when there is one weight per step.
SetStepWeights(t, weights) ==
    IF Len(weights) = t.total_steps THEN [t EXCEPT !.step_weights = weights] ELSE t

\* sum(step_weights[:n])
RECURSIVE SumWeights(_, _)
SumWeights(weights, n) ==
    IF n = 0 THEN 0 ELSE SumWeights(weights, n - 1) + weights[n]

\* get_progress_percentage: 100 without steps, else
\* int((completed_weight / total_weight) * 100); the division raises
\* ZeroDivisionError when the weights add up to 0.  (Weights are not
\* negative here, so int() truncates as \div does.)
GetProgressPercentage(t) ==
    IF t.total_steps = 0
    THEN [raises |-> FALSE, value |-> 100]
    ELSE LET total_weight == SumWeights(t.step_weights, Len(t.step_weights))
             completed_weight == SumWeights(t.step_weights, t.current_step)
         IN  IF total_weight = 0
             THEN [raises |-> TRUE, value |-> 0]
             ELSE [raises |-> FALSE,
                   value |-> (completed_weight * 100) \div total_weight]

\* next_step
NextStep(t) ==
    IF t.current_step < t.total_steps
    THEN [t EXCEPT !.current_step = t.current_step + 1]
    ELSE t

\* reset
Reset(t) == [t EXCEPT !.current_step = 0]

\* Outcomes the environment can give to an operation that may fail.
Outcomes(all) == IF env_faults THEN all ELSE {"ok"}

\* Where a finished merge call continues.
ReturnPc == IF caller = "run" THEN "merged" ELSE "done"


(***************************************************************************)
(* PDFMerger: pure parts.                                                  *)
(***************************************************************************)
\* x.get('order', 0)
OrderKey(x) == IF x.has_order THEN x.order ELSE 0

\* list.sort(key=...) is stable: an element goes behind every element whose
\* key is not greater than its own.
RECURSIVE InsertByOrder(_, _)
InsertByOrder(x, s) ==
    IF s = <<>> THEN <<x>>
    ELSE IF OrderKey(x) < OrderKey(Head(s)) THEN <<x>> \o s
    ELSE <<Head(s)>> \o InsertByOrder(x, Tail(s))

RECURSIVE InsertByOrderBeforeTies(_, _)
InsertByOrderBeforeTies(x, s) ==
    IF s = <<>> THEN <<x>>
    ELSE IF OrderKey(x) <= OrderKey(Head(s)) THEN <<x>> \o s
    ELSE <<Head(s)>> \o InsertByOrderBeforeTies(x, Tail(s))

\* A sort that does not keep the order of equal keys.
RECURSIVE SortUnstable(_)
SortUnstable(s) ==
    IF s = <<>> THEN <<>>
    ELSE InsertByOrderBeforeTies(s[Len(s)], SortUnstable(SubSeq(s, 1, Len(s) - 1)))

RECURSIVE SortByOrder(_)
SortByOrder(s) ==
    IF s = <<>> THEN <<>>
    ELSE InsertByOrder(s[Len(s)], SortByOrder(SubSeq(s, 1, Len(s) - 1)))

\* start_page_in_final of a document that follows total content pages.
StartPageNoToc(total) == total + 1

StartPage(total) == total + TocOffset + 1

\* The TOC renderer's loop: the number of showPage calls made while n
\* entries are drawn, the first of them at height y.
RECURSIVE TocShowPages(_, _)
TocShowPages(n, y) ==
    IF n = 0 THEN 0
    ELSE IF y - line_height < toc_margin + 50
         THEN 1 + TocShowPages(n - 1, page_height - toc_margin)
         ELSE TocShowPages(n - 1, y - line_height)

\* Pages of the TOC PDF: the page open when save() is called is emitted too
\* (after a showPage the page already holds the setFont of line 320).
TocPageCount(n) == 1 + TocShowPages(n, page_height - toc_margin - 80)

\* The line printed for entry j: "j. title" on the left, "page" on the right.
TocLine(info, j) == [index |-> j, title |-> info[j].title,
                     page |-> info[j].start_page_in_final]

\* _add_bookmarks: the list handed to set_toc.
BookmarkToc(bm) == [j \in 1..Len(bm) |-> <<bm[j].level, bm[j].title, bm[j].page + 1>>]

\* The text of the footer of the page with 0-based index page_num.
FooterTextZeroBased(page_num) == <<"- ", page_num, " -">>

FooterText(page_num) == <<"- ", page_num + 1, " -">>

\* _add_bottom_page_numbers: one footer more on every page of the document.
AddBottomPageNumbers(doc) ==
    [p \in 1..Len(doc) |->
        [doc[p] EXCEPT !.footers = Append(@, FooterText(p - 1))]]


(***************************************************************************)
(* PDFMerger.merge_pdfs_with_bookmarks, step by step.                      *)
(***************************************************************************)
\* Lines 124-132: sort the argument in place, start the page-count pass.
MergeBegin ==
    /\ pc = "m_begin"
    /\ pdf_info_list' = SortByOrder(pdf_info_list)
    /\ pdf_page_info' = <<>>
    /\ total_content_pages' = 0
    /\ k' = 1
    /\ pc' = "m_count"
    /\ UNCHANGED <<runVars, envVars, toc_pdf_path, toc_entries, output_doc,
                   bookmarks, current_page, outline, metadata, merge_result>>
    /\ UNCHANGED sideVars

\* Lines 134-156: one iteration of the page-count pass.  A file that does
\* not exist or cannot be opened ("unreadable") is left out of pdf_page_info.
CountPages ==
    /\ pc = "m_count"
    /\ k <= Len(pdf_info_list)
    /\ \E o \in Outcomes({"ok", "unreadable"}) :
         LET info == pdf_info_list[k] IN
         IF files[info.file] > 0 /\ o = "ok"
         THEN /\ pdf_page_info' = Append(pdf_page_info,
                    [title |-> info.title, file |-> info.file,
                     page_count |-> files[info.file],
                     start_page_in_final |-> StartPage(total_content_pages),
                     order |-> k - 1])
              /\ total_content_pages' = total_content_pages + files[info.file]
         ELSE UNCHANGED <<pdf_page_info, total_content_pages>>
    /\ k' = k + 1
    /\ UNCHANGED <<runVars, envVars, pdf_info_list, toc_pdf_path, toc_entries,
                   output_doc, bookmarks, current_page, outline, metadata,
                   merge_result, pc>>
    /\ UNCHANGED sideVars

\* Lines 158-170: with nothing to merge return False; otherwise render the
\* TOC (it returns None when anything in it raises) and open the output.
CreateToc ==
    /\ pc = "m_count"
    /\ k > Len(pdf_info_list)
    /\ IF pdf_page_info = <<>>
       THEN /\ merge_result' = "False"
            /\ pc' = ReturnPc
            /\ UNCHANGED <<toc_pdf_path, toc_entries, toc_file, output_doc,
                           bookmarks, current_page>>
       ELSE /\ \E o \in Outcomes({"ok", "raises"}) :
                 IF o = "ok"
                 THEN /\ toc_pdf_path' = TRUE
                      /\ toc_file' = TocPageCount(Len(pdf_page_info))
                      /\ toc_entries' = [j \in 1..Len(pdf_page_info) |->
                                            TocLine(pdf_page_info, j)]
                 ELSE /\ toc_pdf_path' = FALSE
                      /\ UNCHANGED <<toc_file, toc_entries>>
            /\ output_doc' = <<>>
            /\ bookmarks' = <<>>
            /\ current_page' = 0
            /\ pc' = "m_toc"
            /\ UNCHANGED merge_result
    /\ UNCHANGED <<runVars, caller, env_faults, files, target, temp_dirs,
                   pdf_info_list, pdf_page_info, total_content_pages, k, outline,
                   metadata>>
    /\ UNCHANGED sideVars

\* Lines 172-181: put the TOC pages first; a failure is logged and ignored.
InsertToc ==
    /\ pc = "m_toc"
    /\ \E o \in Outcomes({"ok", "raises"}) :
         IF toc_pdf_path /\ o = "ok"
         THEN /\ output_doc' = output_doc \o DocPages(0, toc_file)
              /\ current_page' = current_page + toc_file
         ELSE UNCHANGED <<output_doc, current_page>>
    /\ k' = 1
    /\ pc' = "m_concat"
    /\ UNCHANGED <<runVars, envVars, pdf_info_list, pdf_page_info,
                   total_content_pages, toc_pdf_path, toc_entries, bookmarks,
                   outline, metadata, merge_result>>
    /\ UNCHANGED sideVars

\* The concatenation pass with every document put in front of what is
\* already there.
ConcatDocInFront ==
    /\ pc = "m_concat"
    /\ k <= Len(pdf_page_info)
    /\ \E o \in Outcomes({"ok", "open_raises", "insert_raises"}) :
         LET info == pdf_page_info[k]
             bm == [title |-> info.title, page |-> current_page, level |-> 1]
         IN  CASE o = "open_raises" ->
                    UNCHANGED <<bookmarks, output_doc, current_page>>
               [] o = "insert_raises" ->
                    /\ bookmarks' = Append(bookmarks, bm)
                    /\ UNCHANGED <<output_doc, current_page>>
               [] OTHER ->
                    /\ bookmarks' = Append(bookmarks, bm)
                    /\ output_doc' = DocPages(info.file, info.page_count) \o output_doc
                    /\ current_page' = current_page + info.page_count
    /\ k' = k + 1
    /\ UNCHANGED <<runVars, envVars, pdf_info_list, pdf_page_info,
                   total_content_pages, toc_pdf_path, toc_entries, outline,
                   metadata, merge_result, pc>>
    /\ UNCHANGED sideVars

\* Lines 184-213: one iteration of the concatenation pass.  The bookmark is
\* recorded after the open and before the insert.
ConcatDoc ==
    /\ pc = "m_concat"
    /\ k <= Len(pdf_page_info)
    /\ \E o \in Outcomes({"ok", "open_raises", "insert_raises"}) :
         LET info == pdf_page_info[k]
             bm == [title |-> info.title, page |-> current_page, level |-> 1]
         IN  CASE o = "open_raises" ->
                    UNCHANGED <<bookmarks, output_doc, current_page>>
               [] o = "insert_raises" ->
                    /\ bookmarks' = Append(bookmarks, bm)
                    /\ UNCHANGED <<output_doc, current_page>>
               [] OTHER ->
                    /\ bookmarks' = Append(bookmarks, bm)
                    /\ output_doc' = output_doc \o DocPages(info.file, info.page_count)
                    /\ current_page' = current_page + info.page_count
    /\ k' = k + 1
    /\ UNCHANGED <<runVars, envVars, pdf_info_list, pdf_page_info,
                   total_content_pages, toc_pdf_path, toc_entries, outline,
                   metadata, merge_result, pc>>
    /\ UNCHANGED sideVars

\* Line 216 and _add_bookmarks.
AddBookmarks ==
    /\ pc = "m_concat"
    /\ k > Len(pdf_page_info)
    /\ outline' = IF bookmarks = <<>> THEN outline ELSE BookmarkToc(bookmarks)
    /\ pc' = "m_footer"
    /\ UNCHANGED <<runVars, envVars, pdf_info_list, pdf_page_info,
                   total_content_pages, k, toc_pdf_path, toc_entries, output_doc,
                   bookmarks, current_page, metadata, merge_result>>
    /\ UNCHANGED sideVars

\* Line 219 and _add_bottom_page_numbers.
AddPageNumbers ==
    /\ pc = "m_footer"
    /\ output_doc' = AddBottomPageNumbers(output_doc)
    /\ pc' = "m_metadata"
    /\ UNCHANGED <<runVars, envVars, pdf_info_list, pdf_page_info,
                   total_content_pages, k, toc_pdf_path, toc_entries, bookmarks,
                   current_page, outline, metadata, merge_result>>
    /\ UNCHANGED sideVars

\* Line 222 and _set_document_metadata.
SetMetadata ==
    /\ pc = "m_metadata"
    /\ metadata' = Len(pdf_page_info)
    /\ pc' = "m_save"
    /\ UNCHANGED <<runVars, envVars, pdf_info_list, pdf_page_info,
                   total_content_pages, k, toc_pdf_path, toc_entries, output_doc,
                   bookmarks, current_page, outline, merge_result>>
    /\ UNCHANGED sideVars

\* Lines 225-242: save straight to output_path, remove the TOC file, return
\* True.  A document without pages cannot be saved; a save that raises leaves
\* nothing or a part of the file at output_path, and the merge returns False
\* without removing the TOC file.
SaveDocument ==
    /\ pc = "m_save"
    /\ \E o \in Outcomes({"ok", "raises", "raises_midway"}) :
         CASE Len(output_doc) = 0 \/ o = "raises" ->
                /\ merge_result' = "False"
                /\ UNCHANGED <<target, toc_file>>
           [] Len(output_doc) > 0 /\ o = "raises_midway" ->
                /\ merge_result' = "False"
                /\ target' = "partial"
                /\ UNCHANGED toc_file
           [] OTHER ->
                /\ merge_result' = "True"
                /\ target' = "merged"
                /\ toc_file' = 0
    /\ pc' = ReturnPc
    /\ UNCHANGED <<runVars, caller, env_faults, files, temp_dirs, pdf_info_list,
                   pdf_page_info, total_content_pages, k, toc_pdf_path,
                   toc_entries, output_doc, bookmarks, current_page, outline,
                   metadata>>
    /\ UNCHANGED sideVars

MergeNext ==
    \/ MergeBegin
    \/ CountPages
    \/ CreateToc
    \/ InsertToc
    \/ ConcatDoc
    \/ AddBookmarks
    \/ AddPageNumbers
    \/ SetMetadata
    \/ SaveDocument

(***************************************************************************)
(* A direct call of merge_pdfs_with_bookmarks.                             *)
(***************************************************************************)
\* The state before a merge call has touched anything.
MergeIdle ==
    /\ pdf_page_info = <<>>
    /\ total_content_pages = 0
    /\ k = 0
    /\ toc_pdf_path = FALSE
    /\ toc_entries = <<>>
    /\ output_doc = <<>>
    /\ bookmarks = <<>>
    /\ current_page = 0
    /\ outline = <<>>
    /\ metadata = -1
    /\ merge_result = "none"
    /\ toc_file = 0
    /\ target = "absent"
    /\ temp_dirs = {}

\* No second merge call, no layout and no title is involved.
SideIdle ==
    /\ first_run = <<>>
    /\ generator = "none"
    /\ image_list = <<>>
    /\ layout_doc = <<>>
    /\ title = <<>>
    /\ toc_title = <<>>

\* A font manager that has not been asked yet.
FontIdle ==
    /\ font_manager = [font_registered |-> FALSE, font_name |-> "SimHei"]
    /\ font_files = <<>>
    /\ font_calls = <<>>

\* A tracker nobody has used.
TrackerIdle ==
    /\ tracker = ProgressTracker(0)
    /\ progress = [raises |-> FALSE, value |-> -1]
    /\ progress_updated = <<>>

\* No worker is involved.
NoWorker ==
    /\ TrackerIdle
    /\ ppt_files = <<>>
    /\ is_cancelled = FALSE
    /\ i = 0
    /\ temp_pdfs = <<>>
    /\ signals = <<>>
    /\ temp_files = <<>>
    /\ optimize_result = "none"

\* Page count of the j-th document a direct caller passes: two pages and one
\* page in turn (the worker's runs vary the page counts freely).
InputPages(j) == 1 + (j % 2)

\* A caller passes up to MaxFiles documents, each with any order key or
\* none, in an environment that may fail.
InitMerge ==
    /\ NoWorker
    /\ MergeIdle
    /\ FontIdle
    /\ SideIdle
    /\ caller = "direct"
    /\ env_faults = TRUE
    /\ pc = "m_begin"
    /\ \E n \in 0..MaxFiles :
         /\ files = [j \in 1..n |-> InputPages(j)]
         /\ \E keys \in [1..n -> OrderKeys \cup {-1}] :
              pdf_info_list = [j \in 1..n |->
                  [file |-> j, title |-> j,
                   order |-> IF keys[j] = -1 THEN 0 ELSE keys[j],
                   has_order |-> keys[j] # -1]]

MergeSpec == InitMerge /\ [][MergeNext]_vars

\* A caller passes up to MaxTocEntries one-page documents in key order, and
\* neither the files nor the libraries fail.
InitToc ==
    /\ NoWorker
    /\ MergeIdle
    /\ FontIdle
    /\ SideIdle
    /\ caller = "direct"
    /\ env_faults = FALSE
    /\ pc = "m_begin"
    /\ \E n \in 1..MaxTocEntries :
         /\ files = [j \in 1..n |-> 1]
         /\ pdf_info_list = [j \in 1..n |->
                [file |-> j, title |-> j, order |-> j - 1, has_order |-> TRUE]]

TocSpec == InitToc /\ [][MergeNext]_vars


(***************************************************************************)
(* PPTConverterThread.                                                     *)
(***************************************************************************)
\* create_layout_pdf: the pages of the layout of n slide images, one page
\* for every page_start of range(0, n, slides_per_page).
LayoutPages(n) == (n + slides_per_page - 1) \div slides_per_page

\* cancel(): the GUI thread sets the flag while the worker is running.
Cancel ==
    /\ caller = "run"
    /\ pc # "done"
    /\ ~is_cancelled
    /\ is_cancelled' = TRUE
    /\ UNCHANGED <<ppt_files, i, temp_pdfs, signals, temp_files, optimize_result,
                   envVars, mergeVars, pc>>
    /\ UNCHANGED sideVars

\* Lines 366-377: without input report an error and return.
RunStart ==
    /\ pc = "start"
    /\ IF ppt_files = <<>>
       THEN /\ signals' = Append(signals, "error_occurred")
            /\ pc' = "done"
       ELSE /\ pc' = "loop"
            /\ UNCHANGED signals
    /\ i' = 0
    /\ temp_pdfs' = <<>>
    /\ tracker' = IF ppt_files = <<>> THEN tracker
                  ELSE ProgressTracker(Len(ppt_files) + 2)
    /\ UNCHANGED <<ppt_files, is_cancelled, temp_files, optimize_result, envVars,
                   mergeVars, progress, progress_updated>>
    /\ UNCHANGED idleVars

\* The head of an iteration without the read of the flag.
NextFileIgnoringCancel ==
    /\ pc = "loop"
    /\ i < Len(ppt_files)
    /\ temp_pdfs' = Append(temp_pdfs, ppt_files[i + 1])
    /\ pc' = "convert"
    /\ UNCHANGED <<ppt_files, is_cancelled, i, signals, temp_files,
                   optimize_result, envVars, mergeVars>>
    /\ UNCHANGED sideVars

\* Lines 381-391: the head of an iteration of the conversion loop.  The
\* flag is read here; when it is not set the name of the layout PDF is
\* recorded and the conversion is called.
NextFile ==
    /\ pc = "loop"
    /\ i < Len(ppt_files)
    /\ IF is_cancelled
       THEN /\ pc' = "finally"
            /\ UNCHANGED temp_pdfs
       ELSE /\ temp_pdfs' = Append(temp_pdfs, ppt_files[i + 1])
            /\ pc' = "convert"
    /\ UNCHANGED <<ppt_files, is_cancelled, i, signals, temp_files,
                   optimize_result, envVars, mergeVars>>
    /\ UNCHANGED sideVars

\* Lines 393-405: convert_ppt_to_layout_pdf returns; it does not look at
\* the flag.  A presentation that yields no image fails the conversion,
\* which ends the run with an error.
ConvertFile ==
    /\ pc = "convert"
    /\ \E n \in 0..MaxSlides :
         /\ temp_files' = Append(temp_files, ppt_files[i + 1])
         /\ temp_dirs' = temp_dirs \cup {ppt_files[i + 1]}
         /\ IF n = 0
            THEN /\ signals' = Append(signals, "error_occurred")
                 /\ pc' = "finally"
                 /\ UNCHANGED <<i, files, trackVars>>
            ELSE /\ files' = [files EXCEPT ![ppt_files[i + 1]] = LayoutPages(n)]
                 /\ i' = i + 1
                 /\ tracker' = NextStep(tracker)
                 /\ progress' = GetProgressPercentage(tracker')
                 /\ progress_updated' = Append(progress_updated, progress'.value)
                 /\ pc' = "loop"
                 /\ UNCHANGED signals
    /\ UNCHANGED <<ppt_files, is_cancelled, temp_pdfs, optimize_result, caller,
                   env_faults, target, toc_file, mergeVars>>
    /\ UNCHANGED idleVars

\* Lines 407-426: after the loop read the flag, then build merge_info from
\* zip(ppt_files, temp_pdfs) and call the merger.
CallMerge ==
    /\ pc = "loop"
    /\ i = Len(ppt_files)
    /\ IF is_cancelled
       THEN /\ pc' = "finally"
            /\ UNCHANGED pdf_info_list
       ELSE /\ pdf_info_list' = [j \in 1..Len(temp_pdfs) |->
                   [file |-> temp_pdfs[j], title |-> ppt_files[j],
                    order |-> j - 1, has_order |-> TRUE]]
            /\ pc' = "m_begin"
    /\ UNCHANGED <<runVars, envVars, pdf_page_info, total_content_pages, k,
                   toc_pdf_path, toc_entries, output_doc, bookmarks, current_page,
                   outline, metadata, merge_result>>
    /\ UNCHANGED sideVars

\* Lines 428-437: a failed merge is reported; after a successful one the
\* flag is read once more.
AfterMerge ==
    /\ pc = "merged"
    /\ IF merge_result = "False"
       THEN /\ signals' = Append(signals, "error_occurred")
            /\ pc' = "finally"
            /\ UNCHANGED trackVars
       ELSE /\ tracker' = NextStep(tracker)
            /\ progress' = GetProgressPercentage(tracker')
            /\ progress_updated' = Append(progress_updated, progress'.value)
            /\ pc' = IF is_cancelled THEN "finally" ELSE "optimize"
            /\ UNCHANGED signals
    /\ UNCHANGED <<ppt_files, is_cancelled, i, temp_pdfs, temp_files,
                   optimize_result, envVars, mergeVars>>
    /\ UNCHANGED idleVars

\* Lines 439-450 and optimize_pdf: the document is saved to a temporary file
\* which shutil.move puts at output_path; the result of optimize_pdf is not
\* looked at.  The save may raise (output_path untouched), and the move may
\* raise while it copies over output_path.
Optimize ==
    /\ pc = "optimize"
    /\ \E o \in Outcomes({"ok", "save_raises", "move_raises"}) :
         /\ target' = CASE o = "ok" -> "optimized"
                        [] o = "save_raises" -> target
                        [] OTHER -> "partial"
         /\ optimize_result' = IF o = "ok" THEN "True" ELSE "False"
    /\ tracker' = NextStep(tracker)
    /\ progress_updated' = Append(progress_updated, 100)
    /\ signals' = Append(signals, "conversion_finished")
    /\ pc' = "finally"
    /\ UNCHANGED <<ppt_files, is_cancelled, i, temp_pdfs, temp_files, caller,
                   env_faults, files, toc_file, temp_dirs, mergeVars, progress>>
    /\ UNCHANGED idleVars

\* Lines 452-462: the finally block removes the layout PDFs and has the
\* converter remove the directories it recorded (cleanup_temp_files).
Finally ==
    /\ pc = "finally"
    /\ files' = [f \in DOMAIN files |-> IF f \in Range(temp_pdfs) THEN 0 ELSE files[f]]
    /\ temp_dirs' = temp_dirs \ Range(temp_files)
    /\ temp_files' = <<>>
    /\ pc' = "done"
    /\ UNCHANGED <<ppt_files, is_cancelled, i, temp_pdfs, signals, optimize_result,
                   caller, env_faults, target, toc_file, mergeVars>>
    /\ UNCHANGED sideVars

\* A run over up to MaxFiles presentations, in an environment that may fail.
Init ==
    /\ MergeIdle
    /\ FontIdle
    /\ caller = "run"
    /\ env_faults = TRUE
    /\ pc = "start"
    /\ is_cancelled = FALSE
    /\ i = 0
    /\ temp_pdfs = <<>>
    /\ signals = <<>>
    /\ temp_files = <<>>
    /\ optimize_result = "none"
    /\ pdf_info_list = <<>>
    /\ SideIdle
    /\ TrackerIdle
    /\ \E n \in 0..MaxFiles :
         /\ ppt_files = [j \in 1..n |-> j]
         /\ files = [j \in 1..n |-> 0]

Next ==
    \/ Cancel
    \/ RunStart
    \/ NextFile
    \/ ConvertFile
    \/ CallMerge
    \/ AfterMerge
    \/ Optimize
    \/ Finally
    \/ MergeNext

Spec == Init /\ [][Next]_vars


(***************************************************************************)
(* The layout generators: ChineseSlideLayoutGenerator and                  *)
(* PDFLayoutGenerator.  Lengths are in 1/127 pt, in which the A4 page      *)
(* (210 mm x 297 mm at 72/25.4 pt per mm), the margins and both slot       *)
(* extents are whole numbers.  A length that depends on an image is a      *)
(* fraction, kept as a numerator over the field den of its rectangle.      *)
(***************************************************************************)
MaxImages == 17            \* page images of one layout
MaxPixelSteps == 8         \* width and height of a large image, in steps of 240 pixels
MaxCalls == 3              \* calls of register_chinese_font on one manager
MaxSteps == 3              \* total_steps of a ProgressTracker
MaxWeight == 2             \* largest weight of a step

Unit == 127                \* 1 pt
A4Width == 75600           \* 210 mm
A4Height == 106920         \* 297 mm
margin == 36 * Unit
gap == 12 * Unit
footer_reserve == 40 * Unit
slides_per_row == 2
slides_per_col == 4
pages_per_layout_page == 8   \* PDFLayoutGenerator.pages_per_layout_page

available_width == A4Width - 2 * margin - (slides_per_row - 1) * gap
available_height == A4Height - 2 * margin - (slides_per_col - 1) * gap - footer_reserve
slot_width == available_width \div slides_per_row
slot_height == available_height \div slides_per_col

\* Width and height in pixels of the images a layout is made of.
Shapes == << <<4, 3>>, <<16, 9>>, <<3, 4>>, <<3, 2>>, <<1, 1>>, <<20, 1>>, <<1, 20>> >>

\* The layout generators.
Generators == {"slides", "ppt", "pdf"}

\* Nine pages to the grid page of PDFLayoutGenerator.
CapacityPdfNine(gen) == IF gen = "pdf" THEN slides_per_page + 1 ELSE slides_per_page

\* The images per grid page of a generator.
Capacity(gen) == IF gen = "pdf" THEN pages_per_layout_page ELSE slides_per_page

\* Every slot of a row in the first column.
CalculateSlotPositionFirstColumn(position) ==
    LET row == position \div slides_per_row
    IN  [x |-> margin,
         y |-> A4Height - margin - (row + 1) * (slot_height + gap),
         w |-> slot_width, h |-> slot_height]

\* The slots filled column by column.
CalculateSlotPositionColumnMajor(position) ==
    LET row == position % slides_per_col
        col == position \div slides_per_col
    IN  [x |-> margin + col * (slot_width + gap),
         y |-> A4Height - margin - (row + 1) * (slot_height + gap),
         w |-> slot_width, h |-> slot_height]

\* _calculate_slot_position: the slot of a 0-based position, row by row
\* from the top, with its lower left corner.
CalculateSlotPosition(position) ==
    LET row == position \div slides_per_row
        col == position % slides_per_row
    IN  [x |-> margin + col * (slot_width + gap),
         y |-> A4Height - margin - (row + 1) * (slot_height + gap),
         w |-> slot_width, h |-> slot_height]

\* The fit with the two axes exchanged.
DisplaySizeAxesSwapped(original_width, original_height) ==
    IF original_width * slot_height > slot_width * original_height
    THEN [den |-> original_height,
          w |-> slot_height * original_width,
          h |-> slot_height * original_height]
    ELSE [den |-> original_width,
          w |-> slot_width * original_width,
          h |-> slot_width * original_height]

\* display_width and display_height of an image of original_width by
\* original_height pixels, as numerators over den.  The aspect ratios are
\* compared as fractions.
DisplaySize(original_width, original_height) ==
    IF original_width * slot_height > slot_width * original_height
    THEN [den |-> original_width,
          w |-> slot_width * original_width,
          h |-> slot_width * original_height]
    ELSE [den |-> original_height,
          w |-> slot_height * original_width,
          h |-> slot_height * original_height]

\* The rectangle drawImage is given: img_x = slot_x + (slot_width -
\* display_width) / 2 and img_y likewise, over the denominator 2 * den.
ImageRect(slot, original_width, original_height) ==
    LET d == DisplaySize(original_width, original_height)
    IN  [den |-> 2 * d.den,
         x |-> 2 * d.den * slot.x + (d.den * slot.w - d.w),
         y |-> 2 * d.den * slot.y + (d.den * slot.h - d.h),
         w |-> 2 * d.w,
         h |-> 2 * d.h]

Max(a, b) == IF a > b THEN a ELSE b

RECURSIVE GCD(_, _)
GCD(a, b) == IF b = 0 THEN a ELSE GCD(b, a % b)

\* max(display_width, display_height) in pt, a fraction n / d in lowest
\* terms.
MaxDisplay(original_width, original_height) ==
    LET size == DisplaySize(original_width, original_height)
        n == Max(size.w, size.h)
        d == size.den * Unit
    IN  [n |-> n \div GCD(n, d), d |-> d \div GCD(n, d)]

\* The pixels that are embedded: with max_display_dimension twice the
\* larger display dimension, an image whose larger side has more than
\* max_display_dimension * 2 pixels is resized by scale_factor =
\* (max_display_dimension * 2) / max(original_width, original_height),
\* both sides truncated by int().
PreScale(original_width, original_height) ==
    LET m == MaxDisplay(original_width, original_height)
        mdd == [n |-> 2 * m.n, d |-> m.d]
        larger == Max(original_width, original_height)
    IN  IF larger * mdd.d > mdd.n * 2
        THEN <<(original_width * (mdd.n * 2)) \div (mdd.d * larger),
               (original_height * (mdd.n * 2)) \div (mdd.d * larger)>>
        ELSE <<original_width, original_height>>

\* The slot itself as a drawn rectangle.
SlotRect(slot) == [den |-> 1, x |-> slot.x, y |-> slot.y, w |-> slot.w, h |-> slot.h]

\* _draw_error_placeholder: the slot filled grey, with the error text.
\* PDFLayoutGenerator's texts name the page number, the slide generator's
\* the file.
DrawErrorPlaceholder(gen, img, position, page_number) ==
    [kind |-> "placeholder",
     source |-> img.name,
     position |-> position,
     slot |-> CalculateSlotPosition(position),
     rect |-> SlotRect(CalculateSlotPosition(position)),
     pixels |-> <<>>,
     text |-> IF gen = "pdf"
              THEN <<IF img.state = "missing" THEN "missing page " ELSE "error: page ",
                     page_number>>
              ELSE <<IF img.state = "missing" THEN "missing: " ELSE "error: ",
                     img.name>>]

\* _draw_page_with_aspect_ratio and _draw_slide_with_correct_aspect_ratio:
\* the image in its slot and, for PDFLayoutGenerator, the label "p.N" under
\* it; an image that cannot be decoded raises, and the handler draws the
\* placeholder.
DrawPageWithAspectRatio(gen, img, position, page_number) ==
    IF img.state = "undecodable"
    THEN DrawErrorPlaceholder(gen, img, position, page_number)
    ELSE [kind |-> "image",
          source |-> img.name,
          position |-> position,
          slot |-> CalculateSlotPosition(position),
          rect |-> ImageRect(CalculateSlotPosition(position), img.width, img.height),
          pixels |-> PreScale(img.width, img.height),
          text |-> IF gen = "pdf" THEN <<"p.", page_number>> ELSE <<>>]

\* The body of the inner loop: os.path.exists decides between the two.
DrawPosition(gen, img, position, page_number) ==
    IF img.state = "missing"
    THEN DrawErrorPlaceholder(gen, img, position, page_number)
    ELSE DrawPageWithAspectRatio(gen, img, position, page_number)

\* The canvas: the pages emitted so far and the code of the open page.
NewCanvas == [pages |-> <<>>, code |-> <<>>]

ShowPage(c) == [pages |-> Append(c.pages, c.code), code |-> <<>>]

\* Canvas.save() emits the open page when something was drawn on it.
Save(c) == IF c.code # <<>> THEN ShowPage(c).pages ELSE c.pages

\* image_list[page_start : page_start + capacity], only the images that
\* exist.
PageSlicePresentOnly(list, page_start, capacity) ==
    LET last == IF page_start + capacity < Len(list)
                THEN page_start + capacity ELSE Len(list)
        IsPresent(img) == img.state = "ok"
    IN  SelectSeq(SubSeq(list, page_start + 1, last), IsPresent)

\* image_list[page_start : page_start + capacity]
PageSlice(list, page_start, capacity) ==
    LET last == IF page_start + capacity < Len(list)
                THEN page_start + capacity ELSE Len(list)
    IN  SubSeq(list, page_start + 1, last)

\* The loop without its showPage.
RECURSIVE LayoutLoopOnOnePage(_, _, _, _)
LayoutLoopOnOnePage(gen, list, page_start, c) ==
    IF page_start >= Len(list) THEN c
    ELSE LET layout_pages == PageSlice(list, page_start, Capacity(gen))
             drawn == [p \in 1..Len(layout_pages) |->
                          DrawPosition(gen, layout_pages[p], p - 1, page_start + p)]
         IN  LayoutLoopOnOnePage(gen, list, page_start + Capacity(gen),
                                 [c EXCEPT !.code = @ \o drawn])

\* for page_start in range(0, len(image_list), capacity): a showPage before
\* every group but the first, then the images of the group at positions
\* 0, 1, ... with page numbers page_start + position + 1.
RECURSIVE LayoutLoop(_, _, _, _)
LayoutLoop(gen, list, page_start, c) ==
    IF page_start >= Len(list) THEN c
    ELSE LET shown == IF page_start > 0 THEN ShowPage(c) ELSE c
             layout_pages == PageSlice(list, page_start, Capacity(gen))
             drawn == [p \in 1..Len(layout_pages) |->
                          DrawPosition(gen, layout_pages[p], p - 1, page_start + p)]
         IN  LayoutLoop(gen, list, page_start + Capacity(gen),
                        [shown EXCEPT !.code = @ \o drawn])

\* The grid pages of the layout PDF written for a list of images.
CreateLayoutPdfFromImages(gen, list) == Save(LayoutLoop(gen, list, 0, NewCanvas))

\* create_layout_pdf of ChineseSlideLayoutGenerator and of its copy
\* SlideLayoutGenerator.
CreateLayoutPdf ==
    /\ pc = "l_begin"
    /\ generator \in {"slides", "ppt"}
    /\ layout_doc' = CreateLayoutPdfFromImages(generator, image_list)
    /\ pc' = "l_done"
    /\ UNCHANGED <<runVars, envVars, mergeVars, first_run, generator, image_list,
                   titleVars, fontVars, trackVars>>

\* PDFLayoutGenerator.convert_pdf_to_layout: _pdf_to_images renders the
\* pages into a directory of its own, the layout is written, the images are
\* removed; the directory is not.
ConvertPdfToLayout ==
    /\ pc = "l_begin"
    /\ generator = "pdf"
    /\ layout_doc' = CreateLayoutPdfFromImages(generator, image_list)
    /\ temp_dirs' = temp_dirs \cup {0}
    /\ pc' = "l_done"
    /\ UNCHANGED <<runVars, caller, env_faults, files, target, toc_file, mergeVars,
                   first_run, generator, image_list, titleVars, fontVars, trackVars>>

\* A generator is handed 1..MaxImages images of the shapes above, at most
\* one of which is missing or cannot be decoded.
InitLayout ==
    /\ NoWorker
    /\ MergeIdle
    /\ FontIdle
    /\ caller = "direct"
    /\ env_faults = FALSE
    /\ files = <<>>
    /\ pdf_info_list = <<>>
    /\ first_run = <<>>
    /\ title = <<>>
    /\ toc_title = <<>>
    /\ pc = "l_begin"
    /\ layout_doc = <<>>
    /\ generator \in Generators
    /\ \E n \in 1..MaxImages, first \in 1..Len(Shapes), bad \in 0..MaxImages,
          how \in {"missing", "undecodable"} :
         /\ bad <= n
         /\ image_list = [j \in 1..n |->
                LET shape == Shapes[((first + j) % Len(Shapes)) + 1]
                IN  [name |-> j, width |-> shape[1], height |-> shape[2],
                     state |-> IF j = bad THEN how ELSE "ok"]]

LayoutNext ==
    \/ CreateLayoutPdf
    \/ ConvertPdfToLayout

LayoutSpec == InitLayout /\ [][LayoutNext]_vars

\* A generator is handed one large image, its sides multiples of 240
\* pixels.
InitScale ==
    /\ NoWorker
    /\ MergeIdle
    /\ FontIdle
    /\ caller = "direct"
    /\ env_faults = FALSE
    /\ files = <<>>
    /\ pdf_info_list = <<>>
    /\ first_run = <<>>
    /\ title = <<>>
    /\ toc_title = <<>>
    /\ pc = "l_begin"
    /\ layout_doc = <<>>
    /\ generator \in Generators
    /\ \E w, h \in 1..MaxPixelSteps :
         image_list = <<[name |-> 1, width |-> 240 * w, height |-> 240 * h,
                         state |-> "ok"]>>

ScaleSpec == InitScale /\ [][LayoutNext]_vars


(***************************************************************************)
(* The title column of the TOC.                                            *)
(***************************************************************************)
MaxTitleLen == 50          \* characters of a title

title_limit == 40          \* a title longer than this is cut
title_kept == 37           \* characters kept of a title that is cut

\* title[:title_limit] + "..."
TocTitleCutAtLimit(t) ==
    IF Len(t) > title_limit
    THEN SubSeq(t, 1, title_limit) \o <<".", ".", ".">>
    ELSE t

\* Lines 300-301: title[:37] + "..." when len(title) > 40.
TocTitle(t) ==
    IF Len(t) > title_limit
    THEN SubSeq(t, 1, title_kept) \o <<".", ".", ".">>
    ELSE t

\* Lines 297-304: the title of one TOC line.
DrawTocTitle ==
    /\ pc = "t_begin"
    /\ toc_title' = TocTitle(title)
    /\ pc' = "t_done"
    /\ UNCHANGED <<runVars, envVars, mergeVars, first_run, layoutVars, title,
                   fontVars, trackVars>>

\* The renderer is handed a title of 0..MaxTitleLen characters.
InitTitle ==
    /\ NoWorker
    /\ MergeIdle
    /\ FontIdle
    /\ caller = "direct"
    /\ env_faults = FALSE
    /\ files = <<>>
    /\ pdf_info_list = <<>>
    /\ first_run = <<>>
    /\ generator = "none"
    /\ image_list = <<>>
    /\ layout_doc = <<>>
    /\ toc_title = <<>>
    /\ pc = "t_begin"
    /\ \E n \in 0..MaxTitleLen, every \in 2..4 :
         title = [j \in 1..n |-> IF j % every = 0 THEN "." ELSE "a"]

TitleSpec == InitTitle /\ [][DrawTocTitle]_vars


(***************************************************************************)
(* A caller that merges the same documents twice.                          *)
(***************************************************************************)
\* The second call: the caller passes the list the first call sorted in
\* place, or the list as it was first passed.  The page count, the outline
\* and the TOC lines of the first call are kept for comparison.
MergeAgain ==
    /\ pc = "done"
    /\ first_run.calls = 1
    /\ first_run' = [calls |-> 2, input |-> first_run.input,
                     result |-> merge_result,
                     pages |-> IF merge_result = "True" THEN Len(output_doc) ELSE 0,
                     outline |-> outline, toc |-> toc_entries]
    /\ \E arg \in {"sorted in place", "as first passed"} :
         pdf_info_list' = IF arg = "sorted in place"
                          THEN pdf_info_list ELSE first_run.input
    /\ pdf_page_info' = <<>>
    /\ total_content_pages' = 0
    /\ k' = 0
    /\ toc_pdf_path' = FALSE
    /\ toc_entries' = <<>>
    /\ output_doc' = <<>>
    /\ bookmarks' = <<>>
    /\ current_page' = 0
    /\ outline' = <<>>
    /\ metadata' = -1
    /\ merge_result' = "none"
    /\ pc' = "m_begin"
    /\ UNCHANGED <<runVars, envVars, layoutVars, titleVars, fontVars, trackVars>>

\* A caller passes up to MaxFiles documents with any order keys, some of
\* which may not exist; nothing else fails.
InitTwice ==
    /\ NoWorker
    /\ MergeIdle
    /\ FontIdle
    /\ caller = "direct"
    /\ env_faults = FALSE
    /\ generator = "none"
    /\ image_list = <<>>
    /\ layout_doc = <<>>
    /\ title = <<>>
    /\ toc_title = <<>>
    /\ pc = "m_begin"
    /\ \E n \in 0..MaxFiles :
         /\ \E present \in [1..n -> BOOLEAN] :
              files = [j \in 1..n |-> IF present[j] THEN InputPages(j) ELSE 0]
         /\ \E keys \in [1..n -> OrderKeys \cup {-1}] :
              pdf_info_list = [j \in 1..n |->
                  [file |-> j, title |-> j,
                   order |-> IF keys[j] = -1 THEN 0 ELSE keys[j],
                   has_order |-> keys[j] # -1]]
    /\ first_run = [calls |-> 1, input |-> pdf_info_list, result |-> "none",
                    pages |-> 0, outline |-> <<>>, toc |-> <<>>]

TwiceNext ==
    \/ MergeNext
    \/ MergeAgain

TwiceSpec == InitTwice /\ [][TwiceNext]_vars


(***************************************************************************)
(* The final document, as the claims speak of it.                          *)
(***************************************************************************)
\* 1-based page of the final document holding the first page of doc, 0 when
\* the document is not in it.
FirstPageOf(doc) ==
    LET at == {p \in 1..Len(output_doc) :
                 output_doc[p].doc = doc /\ output_doc[p].idx = 1}
    IN  IF at = {} THEN 0 ELSE CHOOSE p \in at : \A q \in at : p <= q

\* Number of TOC pages in the final document.
TocPagesInFinal == Cardinality({p \in 1..Len(output_doc) : output_doc[p].doc = 0})

IsFirstBodyPage(pg) == pg.doc # 0 /\ pg.idx = 1

\* The documents of the body, in the order in which they appear.
BodyDocs ==
    LET firsts == SelectSeq(output_doc, IsFirstBodyPage)
    IN  [j \in 1..Len(firsts) |-> firsts[j].doc]

TocTitles == [j \in 1..Len(toc_entries) |-> toc_entries[j].title]

BookmarkTitles == [j \in 1..Len(bookmarks) |-> bookmarks[j].title]

PageCounts == [j \in 1..Len(pdf_page_info) |-> pdf_page_info[j].page_count]

StartPages == [j \in 1..Len(pdf_page_info) |-> pdf_page_info[j].start_page_in_final]

\* The ordering key the caller gave with file f.
KeyOfFile(f) == OrderKey(CHOOSE x \in Range(pdf_info_list) : x.file = f)

\* ids is ascending by key, and by insertion position among equal keys (a
\* direct caller's j-th document is file j).
InKeyOrder(ids) ==
    \A a, b \in 1..Len(ids) :
        a < b => \/ KeyOfFile(ids[a]) < KeyOfFile(ids[b])
                 \/ KeyOfFile(ids[a]) = KeyOfFile(ids[b]) /\ ids[a] < ids[b]

(***************************************************************************)
(* Claims.                                                                 *)
(***************************************************************************)
\* C1: after a merge in which nothing fails, whatever the number of TOC
\* entries, the page printed in every TOC entry is the page of the final
\* document on which that document's first page lies.
C1_TocPageNumbersAccurate ==
    merge_result = "True" =>
        \A j \in 1..Len(toc_entries) :
            toc_entries[j].page = FirstPageOf(toc_entries[j].title)

\* C2: every recorded start_page_in_final is the TOC offset (one TOC page,
\* pages counted from 1) plus the page counts of the documents recorded
\* before it; page counts [1, 1, 1] merged behind a one-page TOC give start
\* pages [2, 3, 4] and a final document of 4 pages.
C2_StartPagesArePrefixSums ==
    /\ \A j \in 1..Len(pdf_page_info) :
          pdf_page_info[j].start_page_in_final
              = TocOffset + 1 + SumPageCounts(pdf_page_info, j - 1)
    /\ (merge_result = "True" /\ PageCounts = <<1, 1, 1>>
            /\ TocPagesInFinal = 1 /\ Len(BodyDocs) = 3)
          => StartPages = <<2, 3, 4>> /\ Len(output_doc) = 4

C2_Witness ==
    /\ pc = "done"
    /\ merge_result = "True"
    /\ PageCounts = <<1, 1, 1>>
    /\ StartPages = <<2, 3, 4>>
    /\ FirstPageOf(1) = 2
    /\ Len(output_doc) = 4

\* C3: after a successful merge the final document has as many pages as
\* the TOC plus all documents recorded by the page-count pass.
C3_TotalIsTocPlusContent ==
    merge_result = "True" =>
        Len(output_doc) = TocPagesInFinal
                            + SumPageCounts(pdf_page_info, Len(pdf_page_info))

\* C4: after a successful merge the start pages increase strictly along the
\* merge order and the last document ends on the last page of the final
\* document.
C4_StartPagesIncreaseToTotal ==
    merge_result = "True" =>
        LET n == Len(pdf_page_info) IN
        /\ \A j \in 1..(n - 1) : StartPages[j] < StartPages[j + 1]
        /\ StartPages[n] + PageCounts[n] - 1 = Len(output_doc)

\* C5: after a successful merge the outline has one entry for every merged
\* document, in merge order, at level 1, pointing at the page that holds
\* the document's first page.
C5_OutlineMatchesBody ==
    merge_result = "True" =>
        outline = [j \in 1..Len(BodyDocs) |->
                      <<1, BodyDocs[j], FirstPageOf(BodyDocs[j])>>]

C7_MergedInKeyOrder ==
    pc # "m_begin" =>
        /\ InKeyOrder(BodyDocs)
        /\ InKeyOrder(TocTitles)
        /\ InKeyOrder(BookmarkTitles)

C7_Witness ==
    /\ merge_result = "True"
    /\ KeyOfFile(1) = 1
    /\ \E x \in Range(pdf_info_list) : x.file = 2 /\ ~x.has_order
    /\ \E x \in Range(pdf_info_list) : x.file = 3 /\ x.has_order /\ x.order = 0
    /\ BodyDocs = <<2, 3, 1>>
    /\ TocTitles = <<2, 3, 1>>
    /\ BookmarkTitles = <<2, 3, 1>>

\* C8: when cancellation was requested during a run, no file is at the
\* target path when the run has ended.
C8_NoOutputAfterCancel ==
    (pc = "done" /\ is_cancelled) => target = "absent"

\* C9: a run that has ended has reported exactly one outcome,
\* conversion_finished or error_occurred.
C9_ExactlyOneOutcome ==
    pc = "done" => Len(signals) = 1

\* C10: when the merge returned False or the run reported a failure, the
\* run has left no partial file at the target path.
C10_NoPartialOutputOnFailure ==
    (pc = "done" /\ (merge_result = "False" \/ "error_occurred" \in Range(signals)))
        => target # "partial"

\* C11: a merge call that has returned answers True only when at least one
\* document is in the body of the document it wrote, and False when none
\* is, whichever pass skipped the documents that failed.
C11_TrueOnlyWhenSomeDocumentMerged ==
    merge_result # "none" =>
        /\ merge_result = "True" => Len(BodyDocs) >= 1
        /\ BodyDocs = <<>> => merge_result = "False"

\* C12: when a run has ended, on whatever path, none of its layout PDFs,
\* none of its temporary image directories and no temporary TOC PDF exists.
C12_NoTemporaryFileAfterRun ==
    (caller = "run" /\ pc = "done") =>
        /\ \A f \in Range(temp_pdfs) : files[f] = 0
        /\ temp_dirs = {}
        /\ toc_file = 0

\* C13: when the compaction pass has failed, the run has still reported
\* success and nothing else, and the merged document is at the target path
\* as the merge wrote it.
C13_OptimizeFailureKeepsMergedOutput ==
    optimize_result = "False" =>
        /\ signals = <<"conversion_finished">>
        /\ merge_result = "True"
        /\ target = "merged"

\* The items drawn on the grid pages of the layout, in drawing order.
RECURSIVE Flatten(_)
Flatten(pages) ==
    IF pages = <<>> THEN <<>> ELSE Head(pages) \o Flatten(Tail(pages))

IsPlaceholder(item) == item.kind = "placeholder"

\* The same list with every image present and decodable.
AllPresent(list) == [j \in 1..Len(list) |-> [list[j] EXCEPT !.state = "ok"]]

\* Two slot rectangles share more than an edge.
Overlap(a, b) ==
    /\ a.x < b.x + b.w
    /\ b.x < a.x + a.w
    /\ a.y < b.y + b.h
    /\ b.y < a.y + a.h

\* C14: a layout of N >= 1 images with 8 to the page has ceil(N/8) grid
\* pages; every page but the last holds 8 images, the last holds 1 to 8,
\* so no empty page trails when N is a multiple of 8.
C14_GridPagesFullButLast ==
    pc = "l_done" =>
        LET n == Len(image_list)
            pages == Len(layout_doc)
        IN  /\ 8 * (pages - 1) < n
            /\ n <= 8 * pages
            /\ \A p \in 1..(pages - 1) : Len(layout_doc[p]) = 8
            /\ Len(layout_doc[pages]) \in 1..8

C14_Witness ==
    /\ pc = "l_done"
    /\ Len(image_list) = 16
    /\ Len(layout_doc) = 2
    /\ Len(layout_doc[1]) = 8
    /\ Len(layout_doc[2]) = 8

\* C15: the grid of 4 rows and 2 columns has 4 x 2 slots, all of the same
\* width and height, no two of which overlap, on every grid page drawn;
\* the slots of a row are together no wider, and the slots of a column
\* together no higher, than the page without its margins and the footer
\* reserve, so their areas sum to at most the usable area.
C15_SlotsDisjointWithinUsableArea ==
    pc = "l_done" =>
        /\ Cardinality({CalculateSlotPosition(p) : p \in 0..(slides_per_page - 1)})
              = slides_per_col * slides_per_row
        /\ \A g \in 1..Len(layout_doc) :
              \A a, b \in 1..Len(layout_doc[g]) :
                 /\ layout_doc[g][a].slot.w = layout_doc[g][b].slot.w
                 /\ layout_doc[g][a].slot.h = layout_doc[g][b].slot.h
                 /\ layout_doc[g][a].slot.w > 0
                 /\ layout_doc[g][a].slot.h > 0
                 /\ a # b => ~Overlap(layout_doc[g][a].slot, layout_doc[g][b].slot)
        /\ slides_per_row * slot_width <= A4Width - 2 * margin
        /\ slides_per_col * slot_height <= A4Height - 2 * margin - footer_reserve

C15_Witness ==
    /\ pc = "l_done"
    /\ Len(layout_doc[1]) = slides_per_col * slides_per_row
    /\ Cardinality({layout_doc[1][a].slot : a \in 1..Len(layout_doc[1])}) = 8
    /\ layout_doc[1][8].slot.x = margin + slot_width + gap
    /\ layout_doc[1][1].slot.y > layout_doc[1][8].slot.y

\* C16: the rectangle an image of positive width and height is drawn in has
\* the aspect ratio of the image, lies inside its slot, spans the slot's
\* width when the image is relatively wider than the slot and the slot's
\* height otherwise, and leaves the same space on both sides of each axis.
C16_ImageFitsSlotCentered ==
    pc = "l_done" =>
        \A g \in 1..Len(layout_doc) : \A a \in 1..Len(layout_doc[g]) :
            LET item == layout_doc[g][a]
                img == image_list[item.source]
                r == item.rect
                s == item.slot
                d == r.den
            IN  item.kind = "image" =>
                  /\ r.w * img.height = r.h * img.width
                  /\ r.w > 0
                  /\ r.x >= d * s.x
                  /\ r.y >= d * s.y
                  /\ r.x + r.w <= d * (s.x + s.w)
                  /\ r.y + r.h <= d * (s.y + s.h)
                  /\ IF img.width * s.h > s.w * img.height
                     THEN r.w = d * s.w
                     ELSE r.h = d * s.h
                  /\ r.x - d * s.x = d * (s.x + s.w) - (r.x + r.w)
                  /\ r.y - d * s.y = d * (s.y + s.h) - (r.y + r.h)

C16_Witness ==
    /\ pc = "l_done"
    /\ \E a, b \in 1..Len(layout_doc[1]) :
          LET wide == layout_doc[1][a]
              tall == layout_doc[1][b]
          IN  /\ wide.kind = "image"
              /\ image_list[wide.source].width = 16
              /\ wide.rect.w = wide.rect.den * slot_width
              /\ wide.rect.h < wide.rect.den * slot_height
              /\ wide.rect.y > wide.rect.den * wide.slot.y
              /\ tall.kind = "image"
              /\ image_list[tall.source].height = 4
              /\ tall.rect.h = tall.rect.den * slot_height
              /\ tall.rect.w < tall.rect.den * slot_width
              /\ tall.rect.x > tall.rect.den * tall.slot.x

\* C17: a missing or undecodable page is drawn as a placeholder in the
\* slot the page would have had, by PDFLayoutGenerator under its page
\* number: N pages of which one is bad fill N slots, exactly one with a
\* placeholder, and every other page is drawn in the same slot of the same
\* grid page with the same label as when no page is bad.
C17_PlaceholderKeepsSlotAndOrdinal ==
    pc = "l_done" =>
        LET ref == CreateLayoutPdfFromImages(generator, AllPresent(image_list))
            bad == {j \in 1..Len(image_list) : image_list[j].state # "ok"}
        IN  /\ Len(Flatten(layout_doc)) = Len(image_list)
            /\ Len(SelectSeq(Flatten(layout_doc), IsPlaceholder)) = Cardinality(bad)
            /\ Len(layout_doc) = Len(ref)
            /\ \A g \in 1..Len(layout_doc) :
                  /\ Len(layout_doc[g]) = Len(ref[g])
                  /\ \A a \in 1..Len(layout_doc[g]) :
                        IF layout_doc[g][a].source \in bad
                        THEN /\ layout_doc[g][a].kind = "placeholder"
                             /\ layout_doc[g][a].source = ref[g][a].source
                             /\ layout_doc[g][a].slot = ref[g][a].slot
                             /\ layout_doc[g][a].rect = SlotRect(ref[g][a].slot)
                             /\ generator = "pdf" =>
                                   layout_doc[g][a].text[2] = ref[g][a].text[2]
                        ELSE layout_doc[g][a] = ref[g][a]

C17_Witness ==
    /\ pc = "l_done"
    /\ generator = "pdf"
    /\ Len(image_list) = 11
    /\ image_list[10].state = "missing"
    /\ Len(layout_doc) = 2
    /\ layout_doc[2][2].kind = "placeholder"
    /\ layout_doc[2][2].text = <<"missing page ", 10>>
    /\ layout_doc[2][3].kind = "image"
    /\ layout_doc[2][3].text = <<"p.", 11>>
    /\ layout_doc[2][3].position = 2

\* C18: the TOC line shows a title of at most 40 characters as it is and
\* of a longer one the first 37 characters followed by "...", so never
\* more than 40 characters.
C18_TitleCutTo37PlusEllipsis ==
    pc = "t_done" =>
        /\ Len(title) <= 40 => toc_title = title
        /\ Len(title) > 40 =>
              /\ SubSeq(toc_title, 1, 37) = SubSeq(title, 1, 37)
              /\ SubSeq(toc_title, 38, Len(toc_title)) = <<".", ".", ".">>
        /\ Len(toc_title) <= 40

C18_Witness ==
    /\ pc = "t_done"
    /\ Len(title) = 50
    /\ Len(toc_title) = 40
    /\ toc_title[37] = title[37]
    /\ toc_title[37] = "a"
    /\ title[38] = "a"
    /\ toc_title[38] = "."

\* C19: a second merge of the same documents, passed as the list the first
\* merge sorted in place or as the list first passed, returns what the
\* first returned and gives the same number of pages, the same bookmark
\* titles and target pages and the same TOC lines.
C19_SecondMergeGivesSameDocument ==
    (pc = "done" /\ first_run.calls = 2) =>
        /\ merge_result = first_run.result
        /\ (IF merge_result = "True" THEN Len(output_doc) ELSE 0) = first_run.pages
        /\ outline = first_run.outline
        /\ toc_entries = first_run.toc

C19_Witness ==
    /\ pc = "done"
    /\ first_run.calls = 2
    /\ merge_result = "True"
    /\ Len(first_run.input) = 3
    /\ first_run.input # pdf_info_list
    /\ first_run.pages = 6
    /\ Len(first_run.outline) = 3
    /\ KeyOfFile(1) = KeyOfFile(2)
    /\ BodyDocs = <<3, 1, 2>>

\* C20: a run that was not cancelled has tried to convert every one of its
\* presentations, whatever the fate of the ones before, and has failed
\* before the merge only when not one of them could be converted.
C20_ConversionFailureSkipsOneDocument ==
    (pc = "done" /\ ~is_cancelled /\ ppt_files # <<>>) =>
        /\ Len(temp_pdfs) = Len(ppt_files)
        /\ ("error_occurred" \in Range(signals) /\ merge_result = "none") => i = 0

\* C21: an image whose larger side has more pixels than 4 times the
\* larger side of its draw rectangle (in pt) is embedded resampled, its
\* larger side 2 times that of the draw rectangle (to the pixel) and its
\* aspect ratio kept (to the pixel); any other image is embedded with the
\* pixels it has.
C21_ResampledToTwiceDisplay ==
    pc = "l_done" =>
        \A g \in 1..Len(layout_doc) : \A a \in 1..Len(layout_doc[g]) :
            LET item == layout_doc[g][a]
                img == image_list[item.source]
                r == item.rect
                pt == r.den * Unit
                display == Max(r.w, r.h)
                larger == Max(img.width, img.height)
                embedded == Max(item.pixels[1], item.pixels[2])
            IN  item.kind = "image" =>
                  IF larger * pt > 4 * display
                  THEN /\ (embedded - 1) * pt < 2 * display
                       /\ 2 * display < (embedded + 1) * pt
                       /\ item.pixels[1] * img.height - item.pixels[2] * img.width < larger
                       /\ item.pixels[2] * img.width - item.pixels[1] * img.height < larger
                  ELSE item.pixels = <<img.width, img.height>>

\* C22: the i-th image (from 0) is on grid page i div 8 in slot i mod 8,
\* so the images keep their order and no slot of a page is used twice; the
\* slots run row by row: slot s is in row s div columns counted from the
\* top and in column s mod columns counted from the left.
C22_RowMajorAssignment ==
    pc = "l_done" =>
        /\ \A g \in 1..Len(layout_doc) : \A a \in 1..Len(layout_doc[g]) :
              LET item == layout_doc[g][a]
                  n == item.source - 1
              IN  /\ g - 1 = n \div slides_per_page
                  /\ item.position = n % slides_per_page
                  /\ item.position \in 0..(slides_per_page - 1)
                  /\ \A b \in 1..Len(layout_doc[g]) :
                        LET other == layout_doc[g][b]
                            row == item.position \div slides_per_row
                            col == item.position % slides_per_row
                            orow == other.position \div slides_per_row
                            ocol == other.position % slides_per_row
                        IN  /\ a # b => item.position # other.position
                            /\ a < b => item.source < other.source
                            /\ row = orow <=> item.slot.y = other.slot.y
                            /\ row < orow <=> item.slot.y > other.slot.y
                            /\ col = ocol <=> item.slot.x = other.slot.x
                            /\ col < ocol <=> item.slot.x < other.slot.x
        /\ \A j \in 1..Len(image_list) :
              \E g \in 1..Len(layout_doc) : \E a \in 1..Len(layout_doc[g]) :
                  layout_doc[g][a].source = j

C22_Witness ==
    /\ pc = "l_done"
    /\ Len(image_list) = 12
    /\ layout_doc[2][4].source = 12
    /\ layout_doc[2][4].position = 3
    /\ layout_doc[2][4].slot.x = margin + slot_width + gap
    /\ layout_doc[2][4].slot.y = layout_doc[2][3].slot.y
    /\ layout_doc[2][4].slot.y < layout_doc[2][1].slot.y
    /\ layout_doc[2][3].slot.x = margin
    /\ layout_doc[1][8].source = 8

\* C27: every slot lies inside the usable region of the page: from margin
\* to page width - margin across, and from margin + 40 pt to page height -
\* margin upwards, so that no slot of the bottom row reaches into the band
\* of the footer.
C27_SlotsInsideUsableRegion ==
    pc = "l_done" =>
        \A g \in 1..Len(layout_doc) : \A a \in 1..Len(layout_doc[g]) :
            LET s == layout_doc[g][a].slot
            IN  /\ s.x >= margin
                /\ s.x + s.w <= A4Width - margin
                /\ s.y >= margin + footer_reserve
                /\ s.y + s.h <= A4Height - margin

\* C28: when the concatenation pass has ended, whatever opens and inserts
\* failed in it, there is one bookmark for every document that was
\* inserted and for no other, in order, and every bookmark points at a
\* page from 1 to the page count of the document built (the target that
\* _add_bookmarks hands to set_toc).
C28_BookmarksAreInsertedDocuments ==
    pc = "m_footer" =>
        /\ BookmarkTitles = BodyDocs
        /\ \A b \in 1..Len(bookmarks) :
              BookmarkToc(bookmarks)[b][3] \in 1..Len(output_doc)

\* C29: a merge that returns True has written a document that begins with
\* the TOC: at least one TOC page, the TOC pages before every other page.
C29_SuccessfulOutputBeginsWithToc ==
    merge_result = "True" =>
        /\ TocPagesInFinal >= 1
        /\ \A p \in 1..Len(output_doc) :
              output_doc[p].doc = 0 <=> p <= TocPagesInFinal

\* What the claim compares of a layout: per grid page and slot, the image,
\* the slot rectangle, the drawn rectangle and whether a placeholder was
\* drawn.
Geometry(doc) ==
    [g \in 1..Len(doc) |->
        [a \in 1..Len(doc[g]) |->
            [source |-> doc[g][a].source, position |-> doc[g][a].position,
             slot |-> doc[g][a].slot, rect |-> doc[g][a].rect,
             kind |-> doc[g][a].kind]]]

C23_CancelReadBetweenDocuments ==
    [][/\ is_cancelled => is_cancelled'
       /\ (pc = "convert" /\ pc' # "convert") =>
             \/ /\ pc' = "loop"
                /\ i' = i + 1
                /\ files'[ppt_files[i']] > 0
                /\ signals' = signals
             \/ /\ pc' = "finally"
                /\ signals' = Append(signals, "error_occurred")
       /\ (is_cancelled /\ pc = "loop" /\ pc' # "loop") =>
             /\ pc' = "finally"
             /\ UNCHANGED <<i, temp_pdfs, files, signals, pdf_info_list, output_doc>>
      ]_vars

C23_Witness ==
    /\ is_cancelled
    /\ pc = "finally"
    /\ Len(ppt_files) = 3
    /\ i = 2
    /\ temp_pdfs = <<1, 2>>
    /\ files[2] > 0
    /\ files[3] = 0
    /\ signals = <<>>
    /\ pdf_info_list = <<>>
    /\ target = "absent"

\* The pages of the document under construction that carry a footer.
Footed == {p \in 1..Len(output_doc) : output_doc[p].footers # <<>>}

\* Position of file f in the merge order.
MergeIndex(f) == CHOOSE j \in 1..Len(pdf_page_info) : pdf_page_info[j].file = f

\* C24: the merge works in this order, each step after the one before has
\* ended: the TOC pages come first in the document, then the input
\* documents in merge order; the outline is set only when the
\* concatenation is over; the footers are stamped only after the outline;
\* the metadata is set only after every page has its footer; the file is
\* written only after the metadata is set; and the compaction pass runs
\* only on a merged file that has been written.
C24_MergeStepsInOrder ==
    /\ \A p, q \in 1..Len(output_doc) :
          (p < q /\ output_doc[q].doc = 0) => output_doc[p].doc = 0
    /\ \A a, b \in 1..Len(BodyDocs) :
          a < b => MergeIndex(BodyDocs[a]) < MergeIndex(BodyDocs[b])
    /\ pc \in {"m_toc", "m_concat"} =>
          /\ outline = <<>>
          /\ Footed = {}
          /\ metadata = -1
          /\ target = "absent"
    /\ outline # <<>> => (k > Len(pdf_page_info) /\ outline = BookmarkToc(bookmarks))
    /\ Footed # {} =>
          /\ Footed = 1..Len(output_doc)
          /\ pc \notin {"m_begin", "m_count", "m_toc", "m_concat", "m_footer"}
          /\ bookmarks # <<>> => outline # <<>>
    /\ metadata # -1 =>
          /\ Footed = 1..Len(output_doc)
          /\ pc \notin {"m_begin", "m_count", "m_toc", "m_concat", "m_footer", "m_metadata"}
    /\ target # "absent" =>
          /\ metadata # -1
          /\ pc \notin {"m_begin", "m_count", "m_toc", "m_concat", "m_footer",
                        "m_metadata", "m_save"}
    /\ pc = "optimize" => (merge_result = "True" /\ target = "merged")
    /\ optimize_result # "none" => merge_result = "True"
    /\ target = "optimized" => optimize_result = "True"

C24_Witness ==
    /\ pc = "done"
    /\ merge_result = "True"
    /\ optimize_result = "True"
    /\ target = "optimized"
    /\ TocPagesInFinal = 1
    /\ output_doc[1].doc = 0
    /\ BodyDocs = <<1, 2, 3>>
    /\ Len(outline) = 3
    /\ Footed = 1..Len(output_doc)
    /\ metadata = 3

(***************************************************************************)
(* A caller of ProgressTracker.                                            *)
(***************************************************************************)
\* Lists of weights a caller may pass, of the right length or not.
WeightLists == UNION {[1..n -> 0..MaxWeight] : n \in 0..MaxSteps}

TrackerNextStep ==
    /\ pc = "p_use"
    /\ tracker' = NextStep(tracker)
    /\ UNCHANGED <<runVars, envVars, mergeVars, idleVars, progress,
                   progress_updated, pc>>

TrackerReset ==
    /\ pc = "p_use"
    /\ tracker' = Reset(tracker)
    /\ UNCHANGED <<runVars, envVars, mergeVars, idleVars, progress,
                   progress_updated, pc>>

TrackerSetStepWeights ==
    /\ pc = "p_use"
    /\ \E weights \in WeightLists : tracker' = SetStepWeights(tracker, weights)
    /\ UNCHANGED <<runVars, envVars, mergeVars, idleVars, progress,
                   progress_updated, pc>>

TrackerGetProgressPercentage ==
    /\ pc = "p_use"
    /\ progress' = GetProgressPercentage(tracker)
    /\ UNCHANGED <<runVars, envVars, mergeVars, idleVars, tracker,
                   progress_updated, pc>>

\* A tracker of 0..MaxSteps steps, fresh from its constructor.
InitTracker ==
    /\ ppt_files = <<>>
    /\ is_cancelled = FALSE
    /\ i = 0
    /\ temp_pdfs = <<>>
    /\ signals = <<>>
    /\ temp_files = <<>>
    /\ optimize_result = "none"
    /\ MergeIdle
    /\ FontIdle
    /\ SideIdle
    /\ caller = "direct"
    /\ env_faults = FALSE
    /\ files = <<>>
    /\ pdf_info_list = <<>>
    /\ pc = "p_use"
    /\ \E total_steps \in 0..MaxSteps : tracker = ProgressTracker(total_steps)
    /\ progress = [raises |-> FALSE, value |-> -1]
    /\ progress_updated = <<>>

TrackerNext ==
    \/ TrackerNextStep
    \/ TrackerReset
    \/ TrackerSetStepWeights
    \/ TrackerGetProgressPercentage

TrackerSpec == InitTracker /\ [][TrackerNext]_vars

\* C30: whatever next_step, reset and set_step_weights calls were made on
\* a tracker, current_step is from 0 to total_steps, and
\* get_progress_percentage returns, without raising, an integer from 0 to
\* 100 that is 100 when every step is done and that a next_step never
\* lowers; the values the worker emits never go down and the last one of
\* a successful run is 100.
C30_ProgressWithinRangeAndMonotone ==
    /\ [](/\ tracker.current_step \in 0..tracker.total_steps
          /\ ~GetProgressPercentage(tracker).raises
          /\ ~progress.raises
          /\ GetProgressPercentage(tracker).value \in 0..100
          /\ progress.value \in -1..100
          /\ tracker.current_step = tracker.total_steps =>
                GetProgressPercentage(tracker).value = 100
          /\ \A a, b \in 1..Len(progress_updated) :
                a < b => progress_updated[a] <= progress_updated[b]
          /\ (signals # <<>> /\ signals[Len(signals)] = "conversion_finished") =>
                (progress_updated # <<>>
                   /\ progress_updated[Len(progress_updated)] = 100))
    /\ [][tracker'.current_step = tracker.current_step + 1 =>
             GetProgressPercentage(tracker').value >= GetProgressPercentage(tracker).value
         ]_vars

(***************************************************************************)
(* ChineseFontManager.                                                     *)
(***************************************************************************)
\* font_paths in list order: the file, whether it ends with '.ttc', and
\* for the others the name the substring tests give it.
FontPaths ==
    << [file |-> "Fonts/simhei.ttf",   ttc |-> FALSE, name |-> "SimHei"],
       [file |-> "Fonts/SimHei.ttf",   ttc |-> FALSE, name |-> "SimHei"],
       [file |-> "Fonts/simsun.ttc",   ttc |-> TRUE,  name |-> ""],
       [file |-> "Fonts/SimSun.ttc",   ttc |-> TRUE,  name |-> ""],
       [file |-> "Fonts/msyh.ttc",     ttc |-> TRUE,  name |-> ""],
       [file |-> "Fonts/msyhbd.ttc",   ttc |-> TRUE,  name |-> ""],
       [file |-> "Fonts/ARIALUNI.TTF", ttc |-> FALSE, name |-> "ArialUnicode"],
       [file |-> "Office/ARIALUNI.TTF", ttc |-> FALSE, name |-> "ArialUnicode"] >>

\* font_names tried on a collection file.
TtcNames == <<"SimSun", "SimHei", "MSYaHei">>

\* What a candidate file can be: "absent"; "bad", every registerFont on it
\* raises; "good", none does; and for a collection "picky", the
\* registration under the first name raises and the next one does not.
FontStates(p) ==
    IF FontPaths[p].ttc THEN {"absent", "bad", "good", "picky"}
    ELSE {"absent", "bad", "good"}

\* Lines 53-77: the registration of one existing candidate; found is
\* font_found after it, name is self.font_name if it was set.
TryRegister(p, state) ==
    IF FontPaths[p].ttc
    THEN CASE state = "good" -> [found |-> TRUE, name |-> TtcNames[1]]
           [] state = "picky" -> [found |-> TRUE, name |-> TtcNames[2]]
           [] OTHER -> [found |-> FALSE, name |-> ""]
    ELSE IF state = "good"
         THEN [found |-> TRUE, name |-> FontPaths[p].name]
         ELSE [found |-> FALSE, name |-> ""]

\* Lines 50-85: the loop over font_paths from candidate p on; probed are
\* the candidates a registration was tried on.
RECURSIVE ProbeFonts(_, _, _)
ProbeFonts(fs, p, probed) ==
    IF p > Len(FontPaths)
    THEN [found |-> FALSE, name |-> "", probed |-> probed]
    ELSE IF fs[p] = "absent"
         THEN ProbeFonts(fs, p + 1, probed)
         ELSE LET r == TryRegister(p, fs[p])
              IN  IF r.found
                  THEN [found |-> TRUE, name |-> r.name, probed |-> Append(probed, p)]
                  ELSE ProbeFonts(fs, p + 1, Append(probed, p))

\* register_chinese_font without the test of font_registered.
RegisterChineseFontProbing(m, fs) ==
    LET r == ProbeFonts(fs, 1, <<>>)
        font_name == IF r.found THEN r.name ELSE "Helvetica"
    IN  [manager |-> [font_registered |-> TRUE, font_name |-> font_name],
         returned |-> font_name, probed |-> r.probed]

\* register_chinese_font: the manager after the call, the name returned
\* and the candidates probed.
RegisterChineseFont(m, fs) ==
    IF m.font_registered
    THEN [manager |-> m, returned |-> m.font_name, probed |-> <<>>]
    ELSE LET r == ProbeFonts(fs, 1, <<>>)
             font_name == IF r.found THEN r.name ELSE "Helvetica"
         IN  [manager |-> [font_registered |-> TRUE, font_name |-> font_name],
              returned |-> font_name, probed |-> r.probed]

\* One call of register_chinese_font on the merger's manager (line 274).
CallRegisterChineseFont ==
    /\ pc = "f_use"
    /\ Len(font_calls) < MaxCalls
    /\ LET r == RegisterChineseFont(font_manager, font_files)
       IN  /\ font_manager' = r.manager
           /\ font_calls' = Append(font_calls,
                                   [returned |-> r.returned, probed |-> r.probed])
    /\ UNCHANGED <<runVars, envVars, mergeVars, first_run, layoutVars, titleVars,
                   font_files, trackVars, pc>>

\* A new manager on a machine with any set of candidate files.
InitFont ==
    /\ NoWorker
    /\ MergeIdle
    /\ SideIdle
    /\ caller = "direct"
    /\ env_faults = FALSE
    /\ files = <<>>
    /\ pdf_info_list = <<>>
    /\ pc = "f_use"
    /\ font_manager = [font_registered |-> FALSE, font_name |-> "SimHei"]
    /\ font_calls = <<>>
    /\ font_files \in [1..Len(FontPaths) -> {"absent", "bad", "good", "picky"}]
    /\ \A p \in 1..Len(FontPaths) : font_files[p] \in FontStates(p)

FontSpec == InitFont /\ [][CallRegisterChineseFont]_vars

\* The candidates on which some registration succeeds.
Usable == {p \in 1..Len(FontPaths) : font_files[p] \in {"good", "picky"}}

\* C25: the first call of register_chinese_font tries the candidate fonts
\* that exist in list order, stops at the first on which a registration
\* succeeds and returns its name, and returns "Helvetica" when there is
\* none; every later call on the same manager returns the same name and
\* probes nothing.
C25_FirstFontWinsAndIsCached ==
    \A c \in 1..Len(font_calls) :
        LET call == font_calls[c]
            first == IF Usable = {} THEN Len(FontPaths)
                     ELSE CHOOSE p \in Usable : \A q \in Usable : p <= q
            present == {p \in 1..first : font_files[p] # "absent"}
        IN  IF c = 1
            THEN /\ Range(call.probed) = present
                 /\ \A a, b \in 1..Len(call.probed) :
                       a < b => call.probed[a] < call.probed[b]
                 /\ IF Usable = {}
                    THEN call.returned = "Helvetica"
                    ELSE /\ call.probed[Len(call.probed)] = first
                         /\ call.returned \in {"SimHei", "SimSun", "MSYaHei", "ArialUnicode"}
                         /\ ~FontPaths[first].ttc => call.returned = FontPaths[first].name
                         /\ FontPaths[first].ttc => call.returned \in Range(TtcNames)
                 /\ font_manager.font_registered
                 /\ font_manager.font_name = call.returned
            ELSE /\ call.returned = font_calls[1].returned
                 /\ call.probed = <<>>

C25_Witness ==
    /\ Len(font_calls) = MaxCalls
    /\ font_files[1] = "absent"
    /\ font_files[2] = "bad"
    /\ font_files[3] = "picky"
    /\ font_files[7] = "good"
    /\ font_calls[1] = [returned |-> "SimHei", probed |-> <<2, 3>>]
    /\ font_calls[2] = [returned |-> "SimHei", probed |-> <<>>]

=============================================================================
